---- MODULE Spec2Model ----
(***************************************************************************)
(* Job lifecycle of the image upscaler: the in-memory JobQueue registry,   *)
(* the background runner thread _process_job, the HTTP endpoints that      *)
(* create and read jobs, and the websocket progress channel.               *)
(*                                                                         *)
(* Threads: one asyncio event-loop thread runs every request handler and   *)
(* every websocket session (one coroutine segment at a time, variable      *)
(* loop); one threading.Thread per job runs _process_job (variable         *)
(* runner).  Threads interleave at the granularity of single attribute     *)
(* reads and single setattr calls.                                         *)
(***************************************************************************)
EXTENDS Integers, Sequences, FiniteSets, TLC

\* ---------------------------------------------------------------- bounds
MaxJobs == 2
MaxSessions == 2

JobIds == 1..MaxJobs
\* an id that uuid4 never hands out
UnknownId == MaxJobs + 1
Sessions == 1..MaxSessions

\* ------------------------------------------------------- program constants
None == "None"
JobStatus == {"queued", "processing", "done", "error"}
Terminal == {"done", "error"}

\* progress is a float in the code; it is held here in hundredths
ProgressQueued == 0
ProgressProcessing == 5
ProgressDone == 100

\* factors a caller may send, and the ones the filter backend accepts
Factors == {2, 3}
LegalFactors == {2, 4, 8}
TFHubFactor == 4

ImageBytes == "image-bytes"
ContentType == "image/png"

\* str(exc) for the exceptions the try block of _process_job can see
Str(exc) ==
    CASE exc = "decode"   -> "cannot identify image file"
      [] exc = "pipeline" -> "cannot filter palette images"
      [] exc = "encode"   -> "unknown file extension"

\* a dataclass whose default status is processing
UpscaleJobStarted ==
    [status |-> "processing", progress |-> ProgressQueued, error |-> None,
     result_bytes |-> None, content_type |-> None]

\* UpscaleJob(id=...) with the dataclass defaults
UpscaleJob ==
    [status |-> "queued", progress |-> ProgressQueued, error |-> None,
     result_bytes |-> None, content_type |-> None]

\* the three keyword-argument sets _process_job passes to update, as the
\* ordered key list (kwargs.items() keeps call order) and the values
KeysProcessing == <<"status", "progress">>
KwProcessing == [UpscaleJob EXCEPT !.status = "processing", !.progress = ProgressProcessing]
KeysDone == <<"status", "progress", "result_bytes", "content_type">>
KwDone ==
    [status |-> "done", progress |-> ProgressDone, error |-> None,
     result_bytes |-> ImageBytes, content_type |-> ContentType]
\* a handler that also resets the progress of the failed job
KeysErrorReset == <<"status", "error", "progress">>

KeysError == <<"status", "error">>
\* a handler that records the cause without the error status
KwErrorQueued(exc) == [UpscaleJob EXCEPT !.error = Str(exc)]

KwError(exc) == [UpscaleJob EXCEPT !.status = "error", !.error = Str(exc)]

VARIABLES
    jobs,       \* JobQueue._jobs: job id -> UpscaleJob fields
    lock,       \* JobQueue._lock: the set of threads inside "with self._lock"
    runner,     \* per job id: the _process_job thread dispatched for it
    upd,        \* per job id: statuses of the update calls its runner has made
    hist,       \* per job id: every (status, progress, error) the record has held
    tfhub,      \* TFHUB_AVAILABLE
    loop,       \* the coroutine segment the event-loop thread is executing
    ws,         \* websocket sessions
    active,     \* active_connections: job id -> set of sessions
    caller      \* a thread calling JobQueue.update for an id without a job

vars == <<jobs, lock, runner, upd, hist, tfhub, loop, ws, active, caller>>

\* the fields a status payload carries
Payload(job) == [status |-> job.status, progress |-> job.progress, error |-> job.error]

\* threads that can hold the lock
LoopThread == <<"loop", 0>>
RunnerThread(j) == <<"runner", j>>

\* a job's thread before threading.Thread(...).start()
NoRunner ==
    [pc |-> "none", keys |-> <<>>, kw |-> UpscaleJob, factor |-> 0,
     use_tfhub |-> FALSE, backend |-> None, raised |-> None]

\* the event loop between two requests
LoopIdle ==
    [h |-> "idle", pc |-> "idle", id |-> UnknownId, s |-> 0, code |-> 0,
     factor |-> 0, use_tfhub |-> FALSE, invoked |-> FALSE,
     status |-> None, progress |-> 0, error |-> None, body |-> None, ctype |-> None]

\* no call of update for an id without a job is under way
NoCaller == [pc |-> "idle", id |-> UnknownId, kw |-> UpscaleJob]

\* the thread making such a call
CallerThread == <<"caller", 0>>

\* a websocket session nobody has opened yet
NoSession == [pc |-> "new", id |-> UnknownId, nterm |-> 0, nf |-> 0, end |-> None]

Init ==
    /\ jobs = <<>>
    /\ lock = {}
    /\ runner = [j \in JobIds |-> NoRunner]
    /\ upd = [j \in JobIds |-> <<>>]
    /\ hist = [j \in JobIds |-> {}]
    /\ tfhub \in BOOLEAN
    /\ loop = LoopIdle
    /\ ws = [s \in Sessions |-> NoSession]
    /\ active = <<>>
    /\ caller = NoCaller

\* ------------------------------------------------------------ JobQueue
\* what the registry's ghost history gains when job j's record becomes rec
Held(j, rec) == [hist EXCEPT ![j] = @ \cup {Payload(rec)}]

\* a get that no longer finds a job once it is done or failed
AbsentOrFinished(id) == id \notin DOMAIN jobs \/ jobs[id].status \in Terminal

\* JobQueue.get returns None (else it returns the live record jobs[id])
Absent(id) == id \notin DOMAIN jobs

\* a runner that starts over after a failed attempt
AfterUpdateRetry(st) ==
    IF st = "processing" THEN "decode" ELSE IF st = "error" THEN "start" ELSE "finished"

\* where _process_job continues once update(status=st, ...) has returned
AfterUpdate(st) == IF st = "processing" THEN "decode" ELSE "finished"

\* a registry whose critical sections can be entered while another thread
\* is inside one
AcquireUnguarded(thread) == lock' = lock \cup {thread}

\* "with self._lock:" in create and update, on entry: the thread waits until
\* nobody holds the lock and takes it
Acquire(thread) == lock = {} /\ lock' = lock \cup {thread}

\* JobQueue.update, entry: take the lock and look the job up; an unknown id
\* returns at once, a known one starts the setattr loop over kwargs.items()
UpdateEnter(j, keys, kw) ==
    /\ upd' = [upd EXCEPT ![j] = Append(@, kw.status)]
    /\ IF j \in DOMAIN jobs
       THEN /\ Acquire(RunnerThread(j))
            /\ runner' = [runner EXCEPT ![j].pc = "setattr", ![j].keys = keys, ![j].kw = kw]
       ELSE /\ lock = {} /\ lock' = {}
            /\ runner' = [runner EXCEPT ![j].pc = AfterUpdate(kw.status)]
    /\ UNCHANGED <<jobs, hist>>

\* a runner that keeps the registry's lock from its first update to its last
KeptWhileProcessing(j, st) == IF st = "processing" THEN lock ELSE lock \ {RunnerThread(j)}

\* JobQueue.update line 46: the lock once runner j's update(status=st, ...)
\* has left the with block
Released(j, st) == lock \ {RunnerThread(j)}

\* an update that writes to the job created last, whatever id it was given
SetattrLatest(reg, j, k, v) ==
    LET last == CHOOSE m \in DOMAIN reg : \A n \in DOMAIN reg : n <= m
    IN [reg EXCEPT ![last] = [@ EXCEPT ![k] = v]]

\* JobQueue.update lines 47, 51: setattr(job, k, v) on the job that
\* self._jobs.get(job_id) returned for id j; reg is the registry
Setattr(reg, j, k, v) == [reg EXCEPT ![j] = [@ EXCEPT ![k] = v]]

\* JobQueue.update, one round of "for k, v in kwargs.items(): setattr(job, k, v)";
\* the last round leaves the with block
RunnerSetattr(j) ==
    /\ runner[j].pc = "setattr"
    /\ LET k == Head(runner[j].keys)
           rest == Tail(runner[j].keys)
           rec == Setattr(jobs, j, k, runner[j].kw[k])[j]
       IN /\ jobs' = Setattr(jobs, j, k, runner[j].kw[k])
          /\ hist' = Held(j, rec)
          /\ IF rest = <<>>
             THEN /\ lock' = Released(j, runner[j].kw.status)
                  /\ runner' = [runner EXCEPT ![j].pc = AfterUpdate(runner[j].kw.status),
                                              ![j].keys = <<>>, ![j].kw = UpscaleJob]
             ELSE /\ lock' = lock
                  /\ runner' = [runner EXCEPT ![j].keys = rest]
    /\ UNCHANGED <<upd, tfhub, loop, ws, active, caller>>

\* an update that indexes the dictionary, self._jobs[job_id], and so raises
\* KeyError for an id it does not find
Indexed(reg, id, kw) == [jobs |-> reg, raised |-> TRUE]

\* JobQueue.update lines 47-49 for an id the registry reg does not hold:
\* "if not job: return", the registry as it was and nothing raised
Missing(reg, id, kw) == [jobs |-> reg, raised |-> FALSE]

\* JobQueue.update line 46 called for an id that has no job (no handler of
\* the application does so; the registry's interface allows it): the caller
\* takes the lock
CallEnter(id, kw) ==
    /\ caller.pc # "inside"
    /\ Absent(id)
    /\ Acquire(CallerThread)
    /\ caller' = [pc |-> "inside", id |-> id, kw |-> kw]
    /\ UNCHANGED <<jobs, runner, upd, hist, tfhub, loop, ws, active>>

\* JobQueue.update lines 47-49: the lookup finds nothing, the call leaves the
\* with block
CallLeave ==
    /\ caller.pc = "inside"
    /\ LET out == Missing(jobs, caller.id, caller.kw)
       IN /\ jobs' = out.jobs
          /\ caller' = [pc |-> IF out.raised THEN "raised" ELSE "returned",
                        id |-> caller.id, kw |-> UpscaleJob]
    /\ lock' = lock \ {CallerThread}
    /\ UNCHANGED <<runner, upd, hist, tfhub, loop, ws, active>>

CallStep ==
    \/ \E id \in (JobIds \cup {UnknownId}) \ DOMAIN jobs, kw \in {KwProcessing, KwDone} :
          CallEnter(id, kw)
    \/ CallLeave

\* -------------------------------------------------------- _process_job
\* line 103: job_queue.update(job_id, status=processing, progress=0.05)
RunnerStart(j) ==
    /\ runner[j].pc = "start"
    /\ UpdateEnter(j, KeysProcessing, KwProcessing)
    /\ UNCHANGED <<tfhub, loop, ws, active, caller>>

\* a handler that lets the exceptions of the encoding step through
RaiseUncaught(j, step) ==
    runner' = [runner EXCEPT ![j].pc = IF step = "encode" THEN "crashed" ELSE "except",
                             ![j].raised = step]

\* an exception raised at step inside the try block reaches the handler
Raise(j, step) == runner' = [runner EXCEPT ![j].pc = "except", ![j].raised = step]

\* line 105: Image.open returns or raises
RunnerDecode(j) ==
    /\ runner[j].pc = "decode"
    /\ \/ runner' = [runner EXCEPT ![j].pc = "pipeline"]
       \/ Raise(j, "decode")
    /\ UNCHANGED <<jobs, lock, upd, hist, tfhub, loop, ws, active, caller>>

\* a runner that always takes the default backend
BackendDefault(r) == [name |-> "pil", factor |-> r.factor]

\* lines 108-115: the backend and the factor the runner calls it with
Backend(r) ==
    IF r.use_tfhub /\ tfhub
    THEN [name |-> "tfhub", factor |-> TFHubFactor]
    ELSE [name |-> "pil", factor |-> r.factor]

\* lines 108-115: the request is built and the chosen backend's upscale is
\* called; the runner is inside it from here on
RunnerPipeline(j) ==
    /\ runner[j].pc = "pipeline"
    /\ runner' = [runner EXCEPT ![j].pc = "invoked",
                                ![j].backend = Backend(runner[j]).name,
                                ![j].factor = Backend(runner[j]).factor]
    /\ UNCHANGED <<jobs, lock, upd, hist, tfhub, loop, ws, active, caller>>

\* lines 111, 115: the backend's upscale returns or raises
RunnerBackend(j) ==
    /\ runner[j].pc = "invoked"
    /\ \/ runner' = [runner EXCEPT ![j].pc = "encode", ![j].factor = 0,
                                   ![j].use_tfhub = FALSE, ![j].backend = None]
       \/ Raise(j, "pipeline")
    /\ UNCHANGED <<jobs, lock, upd, hist, tfhub, loop, ws, active, caller>>

\* lines 118-120: upscaled.save(buf, format=out_format) returns or raises
RunnerEncode(j) ==
    /\ runner[j].pc = "encode"
    /\ \/ runner' = [runner EXCEPT ![j].pc = "call_done"]
       \/ Raise(j, "encode")
    /\ UNCHANGED <<jobs, lock, upd, hist, tfhub, loop, ws, active, caller>>

\* lines 121-127: job_queue.update(job_id, status=done, progress=1.0, ...)
RunnerDone(j) ==
    /\ runner[j].pc = "call_done"
    /\ UpdateEnter(j, KeysDone, KwDone)
    /\ UNCHANGED <<tfhub, loop, ws, active, caller>>

\* lines 128-130: job_queue.update(job_id, status=error, error=str(exc))
RunnerExcept(j) ==
    /\ runner[j].pc = "except"
    /\ UpdateEnter(j, KeysError, KwError(runner[j].raised))
    /\ UNCHANGED <<tfhub, loop, ws, active, caller>>

RunnerStep(j) ==
    \/ RunnerStart(j)
    \/ RunnerSetattr(j)
    \/ RunnerDecode(j)
    \/ RunnerPipeline(j)
    \/ RunnerBackend(j)
    \/ RunnerEncode(j)
    \/ RunnerDone(j)
    \/ RunnerExcept(j)

\* ------------------------------------------------- create_upscale_job
\* lines 142-149: the validation of (factor, use_tfhub)
Rejected(factor, use_tfhub) ==
    IF use_tfhub THEN ~tfhub ELSE factor \notin LegalFactors

\* line 146: the factor handed to the runner
Forced(factor, use_tfhub) == IF use_tfhub THEN TFHubFactor ELSE factor

\* a handler that creates the job first and validates afterwards
SubmitRejectLate(factor, use_tfhub) ==
    /\ loop.h = "idle"
    /\ Rejected(factor, use_tfhub)
    /\ lock = {}
    /\ JobIds \ DOMAIN jobs # {}
    /\ LET j == CHOOSE k \in JobIds \ DOMAIN jobs : TRUE
       IN /\ jobs' = jobs @@ (j :> UpscaleJob)
          /\ hist' = Held(j, UpscaleJob)
    /\ loop' = [LoopIdle EXCEPT !.h = "job", !.pc = "respond", !.code = 400,
                                !.factor = factor, !.use_tfhub = use_tfhub]
    /\ UNCHANGED <<lock, runner, upd, tfhub, ws, active, caller>>

\* lines 142-149, a request that fails validation: HTTPException(400)
SubmitReject(factor, use_tfhub) ==
    /\ loop.h = "idle"
    /\ Rejected(factor, use_tfhub)
    /\ loop' = [LoopIdle EXCEPT !.h = "job", !.pc = "respond", !.code = 400,
                                !.factor = factor, !.use_tfhub = use_tfhub]
    /\ UNCHANGED <<jobs, lock, runner, upd, hist, tfhub, ws, active, caller>>

\* an id source that hands out the same id every time
FirstId == CHOOSE j \in JobIds : \A k \in JobIds : j <= k

\* JobQueue.create line 37: uuid4().hex, an id no job has; ids are opaque,
\* so the model numbers them in the order they are handed out
Uuid4 == CHOOSE j \in JobIds \ DOMAIN jobs : \A k \in JobIds \ DOMAIN jobs : j <= k

\* lines 142-152 and JobQueue.create lines 37-39: a valid request; uuid4
\* yields an id not in use, the job is inserted under the lock
SubmitCreate(factor, use_tfhub) ==
    /\ loop.h = "idle"
    /\ ~Rejected(factor, use_tfhub)
    /\ JobIds \ DOMAIN jobs # {}
    /\ LET j == Uuid4
       IN /\ jobs' = jobs @@ (j :> UpscaleJob)
          /\ hist' = Held(j, UpscaleJob)
          /\ loop' = [LoopIdle EXCEPT !.h = "job", !.pc = "created", !.id = j,
                                      !.factor = Forced(factor, use_tfhub),
                                      !.use_tfhub = use_tfhub]
    /\ Acquire(LoopThread)
    /\ UNCHANGED <<runner, upd, tfhub, ws, active, caller>>

\* JobQueue.create line 40 and lines 153-158: leave the lock, start the thread
SubmitDispatch ==
    /\ loop.h = "job" /\ loop.pc = "created"
    /\ lock' = lock \ {LoopThread}
    /\ runner' = [runner EXCEPT ![loop.id] =
                     [NoRunner EXCEPT !.pc = "start", !.factor = loop.factor,
                                      !.use_tfhub = loop.use_tfhub]]
    /\ loop' = [loop EXCEPT !.pc = "started", !.factor = 0, !.use_tfhub = FALSE]
    /\ UNCHANGED <<jobs, upd, hist, tfhub, ws, active, caller>>

\* line 159: JobCreateResponse(job_id=job.id, status=job.status), job being
\* the object create returned, which is the one the registry holds
SubmitRespond ==
    /\ loop.h = "job" /\ loop.pc = "started"
    /\ loop' = [loop EXCEPT !.pc = "respond", !.code = 200, !.status = jobs[loop.id].status]
    /\ UNCHANGED <<jobs, lock, runner, upd, hist, tfhub, ws, active, caller>>

\* ----------------------------------------------------- get_job_status
\* lines 164-168: get, 404 for an unknown id, else the read of job.status
StatusGet(id) ==
    /\ loop.h = "idle"
    /\ loop' = IF Absent(id)
               THEN [LoopIdle EXCEPT !.h = "status", !.pc = "respond", !.id = id, !.code = 404]
               ELSE [LoopIdle EXCEPT !.h = "status", !.pc = "progress", !.id = id,
                                     !.status = jobs[id].status]
    /\ UNCHANGED <<jobs, lock, runner, upd, hist, tfhub, ws, active, caller>>

\* line 168: the read of job.progress
StatusProgress ==
    /\ loop.h = "status" /\ loop.pc = "progress"
    /\ loop' = [loop EXCEPT !.pc = "error", !.progress = jobs[loop.id].progress]
    /\ UNCHANGED <<jobs, lock, runner, upd, hist, tfhub, ws, active, caller>>

\* line 168: the read of job.error, and the response
StatusError ==
    /\ loop.h = "status" /\ loop.pc = "error"
    /\ loop' = [loop EXCEPT !.pc = "respond", !.code = 200, !.error = jobs[loop.id].error]
    /\ UNCHANGED <<jobs, lock, runner, upd, hist, tfhub, ws, active, caller>>

\* ----------------------------------------------------- get_job_result
\* io.BytesIO(b): the body streamed for b; BytesIO(None) is an empty buffer
BytesIO(b) == IF b = None THEN "" ELSE b

\* lines 174-178: get, 404 for an unknown id, 409 unless job.status is done
ResultGet(id) ==
    /\ loop.h = "idle"
    /\ loop' = IF Absent(id)
               THEN [LoopIdle EXCEPT !.h = "result", !.pc = "respond", !.id = id, !.code = 404]
               ELSE IF jobs[id].status # "done"
               THEN [LoopIdle EXCEPT !.h = "result", !.pc = "respond", !.id = id, !.code = 409,
                                     !.status = jobs[id].status]
               ELSE [LoopIdle EXCEPT !.h = "result", !.pc = "bytes", !.id = id,
                                     !.status = jobs[id].status]
    /\ UNCHANGED <<jobs, lock, runner, upd, hist, tfhub, ws, active, caller>>

\* line 179: the read of job.result_bytes
ResultBytes ==
    /\ loop.h = "result" /\ loop.pc = "bytes"
    /\ loop' = [loop EXCEPT !.pc = "ctype", !.body = BytesIO(jobs[loop.id].result_bytes)]
    /\ UNCHANGED <<jobs, lock, runner, upd, hist, tfhub, ws, active, caller>>

\* line 179: the read of job.content_type, and the StreamingResponse
ResultCtype ==
    /\ loop.h = "result" /\ loop.pc = "ctype"
    /\ loop' = [loop EXCEPT !.pc = "respond", !.code = 200,
                            !.ctype = jobs[loop.id].content_type]
    /\ UNCHANGED <<jobs, lock, runner, upd, hist, tfhub, ws, active, caller>>

\* ------------------------------- upscale_image, upscale_and_download
\* what can go wrong in a synchronous request: Image.open, service.upscale
\* or upscaled.save raises, or nothing does
SyncOutcomes == {"decode", "pipeline", "encode", "ok"}

\* lines 63-78 and 92-98, once the image is decoded: service.upscale is
\* invoked; an exception of it or of save is not caught and FastAPI answers
\* 500, else the handler answers 200
Invoke(h, factor, raises) ==
    [LoopIdle EXCEPT !.h = h, !.pc = "respond", !.factor = factor, !.invoked = TRUE,
                     !.code = IF raises = "ok" THEN 200 ELSE 500]

\* lines 56-62 and 89-91: HTTPException(400) before the backend is reached
Invalid(h, factor) ==
    [LoopIdle EXCEPT !.h = h, !.pc = "respond", !.factor = factor, !.code = 400]

\* POST /process, lines 56-78: the factor check, the decoding, the backend
UpscaleImage(factor, raises) ==
    /\ loop.h = "idle"
    /\ loop' = IF factor \notin LegalFactors THEN Invalid("process", factor)
               ELSE IF raises = "decode" THEN Invalid("process", factor)
               ELSE Invoke("process", factor, raises)
    /\ UNCHANGED <<jobs, lock, runner, upd, hist, tfhub, ws, active, caller>>

\* POST /download, lines 88-98: the decoding, the backend; the factor is
\* handed to UpscaleRequest as it came
UpscaleAndDownload(factor, raises) ==
    /\ loop.h = "idle"
    /\ loop' = IF raises = "decode" THEN Invalid("download", factor)
               ELSE Invoke("download", factor, raises)
    /\ UNCHANGED <<jobs, lock, runner, upd, hist, tfhub, ws, active, caller>>

SyncStep ==
    \/ \E f \in Factors, x \in SyncOutcomes : UpscaleImage(f, x)
    \/ \E f \in Factors, x \in SyncOutcomes : UpscaleAndDownload(f, x)

\* the handler returns its response; the event loop takes the next request
Return ==
    /\ loop.h \in {"job", "status", "result", "process", "download"} /\ loop.pc = "respond"
    /\ loop' = LoopIdle
    /\ UNCHANGED <<jobs, lock, runner, upd, hist, tfhub, ws, active, caller>>

\* ids a client can name: the ones it was given, and one nobody was given
Known == DOMAIN jobs \cup {UnknownId}

SubmitStep ==
    \/ \E f \in Factors, b \in BOOLEAN : SubmitReject(f, b)
    \/ \E f \in Factors, b \in BOOLEAN : SubmitCreate(f, b)
    \/ SubmitDispatch
    \/ SubmitRespond
    \/ Return

ReadStep ==
    \/ \E id \in Known : StatusGet(id)
    \/ StatusProgress
    \/ StatusError
    \/ \E id \in Known : ResultGet(id)
    \/ ResultBytes
    \/ ResultCtype

\* ---------------------------------------------- websocket_job_progress
\* lines 24-26: active_connections with websocket s registered under id
Register(s, id) ==
    IF id \in DOMAIN active
    THEN [active EXCEPT ![id] = @ \cup {s}]
    ELSE active @@ (id :> {s})

\* a teardown that drops the job's whole entry
CleanupAll(act, s, id) == [k \in DOMAIN act \ {id} |-> act[k]]

\* lines 56-59: the registrations act with websocket s discarded, the key
\* deleted when its set is empty
Cleanup(act, s, id) ==
    IF id \notin DOMAIN act THEN act
    ELSE IF act[id] \ {s} = {}
    THEN [k \in DOMAIN act \ {id} |-> act[k]]
    ELSE [act EXCEPT ![id] = @ \ {s}]

\* a loop that takes an unknown id for a job not yet there and waits
TickBodyWait(s, id, act) ==
    IF Absent(id)
    THEN /\ ws' = [ws EXCEPT ![s].pc = "tick", ![s].id = id]
         /\ active' = act
         /\ loop' = LoopIdle
    ELSE /\ ws' = [ws EXCEPT ![s].pc = "busy", ![s].id = id]
         /\ active' = act
         /\ loop' = [LoopIdle EXCEPT !.h = "ws", !.pc = "progress", !.id = id, !.s = s,
                                     !.status = jobs[id].status]

\* lines 33-48 up to the read of job.status, for session s watching id, with
\* act the registrations as they stand: an unknown id sends "Job not found"
\* (nf counts these notifications), breaks and cleans up; a known one starts
\* the payload with job.status
TickBody(s, id, act) ==
    IF Absent(id)
    THEN /\ ws' = [ws EXCEPT ![s].pc = "ended", ![s].id = id, ![s].nf = @ + 1,
                             ![s].end = "notfound"]
         /\ active' = Cleanup(act, s, id)
         /\ loop' = LoopIdle
    ELSE /\ ws' = [ws EXCEPT ![s].pc = "busy", ![s].id = id]
         /\ active' = act
         /\ loop' = [LoopIdle EXCEPT !.h = "ws", !.pc = "progress", !.id = id, !.s = s,
                                     !.status = jobs[id].status]

\* lines 21-37: accept, register, and the first round of the while loop;
\* sessions are numbered in the order they are opened
WsOpen(s, id) ==
    /\ loop.h = "idle"
    /\ ws[s].pc = "new"
    /\ \A o \in Sessions : o < s => ws[o].pc # "new"
    /\ TickBody(s, id, Register(s, id))
    /\ UNCHANGED <<jobs, lock, runner, upd, hist, tfhub, caller>>

\* lines 50, 33-37: asyncio.sleep returns, the next round starts
WsTick(s) ==
    /\ loop.h = "idle"
    /\ ws[s].pc = "tick"
    /\ TickBody(s, ws[s].id, active)
    /\ UNCHANGED <<jobs, lock, runner, upd, hist, tfhub, caller>>

\* line 38: the read of job.progress
WsProgress ==
    /\ loop.h = "ws" /\ loop.pc = "progress"
    /\ loop' = [loop EXCEPT !.pc = "error", !.progress = jobs[loop.id].progress]
    /\ UNCHANGED <<jobs, lock, runner, upd, hist, tfhub, ws, active, caller>>

\* line 39: the read of job.error; status_data is complete
WsError ==
    /\ loop.h = "ws" /\ loop.pc = "error"
    /\ loop' = [loop EXCEPT !.pc = "send", !.error = jobs[loop.id].error]
    /\ UNCHANGED <<jobs, lock, runner, upd, hist, tfhub, ws, active, caller>>

\* how many terminal messages a session has sent, counted up to 2
Count(n, st) == IF st \in Terminal /\ n < 2 THEN n + 1 ELSE n

\* line 41: await websocket.send_text(status_data) delivers the message
WsSend ==
    /\ loop.h = "ws" /\ loop.pc = "send"
    /\ ws' = [ws EXCEPT ![loop.s].pc = "sent", ![loop.s].nterm = Count(@, loop.status)]
    /\ loop' = LoopIdle
    /\ UNCHANGED <<jobs, lock, runner, upd, hist, tfhub, active, caller>>

\* lines 41, 52-59: the observer is gone, send_text raises WebSocketDisconnect
WsDisconnect ==
    /\ loop.h = "ws" /\ loop.pc = "send"
    /\ ws' = [ws EXCEPT ![loop.s].pc = "ended", ![loop.s].end = "disconnect"]
    /\ active' = Cleanup(active, loop.s, loop.id)
    /\ loop' = LoopIdle
    /\ UNCHANGED <<jobs, lock, runner, upd, hist, tfhub, caller>>

\* lines 44-50, 54-59: the read of job.status after the send; break and
\* clean up on done or error, sleep otherwise
WsCheck(s) ==
    /\ loop.h = "idle"
    /\ ws[s].pc = "sent"
    /\ IF jobs[ws[s].id].status \in Terminal
       THEN /\ ws' = [ws EXCEPT ![s].pc = "ended", ![s].end = "break"]
            /\ active' = Cleanup(active, s, ws[s].id)
       ELSE /\ ws' = [ws EXCEPT ![s].pc = "tick"]
            /\ active' = active
    /\ UNCHANGED <<jobs, lock, runner, upd, hist, tfhub, loop, caller>>

WsStep ==
    \/ \E s \in Sessions, id \in Known : WsOpen(s, id)
    \/ \E s \in Sessions : WsTick(s)
    \/ WsProgress
    \/ WsError
    \/ WsSend
    \/ WsDisconnect
    \/ \E s \in Sessions : WsCheck(s)

\* ------------------------------------------------------ specifications
\* Readers never write the registry, so the HTTP readers and the websocket
\* sessions are checked against the runners separately.

\* runners, submissions, the two HTTP read endpoints and the two
\* synchronous endpoints
Next ==
    \/ \E j \in JobIds : RunnerStep(j)
    \/ SubmitStep
    \/ ReadStep
    \/ SyncStep

Spec == Init /\ [][Next]_vars

\* runners, submissions and the websocket sessions
WsNext ==
    \/ \E j \in JobIds : RunnerStep(j)
    \/ SubmitStep
    \/ WsStep

WsSpec == Init /\ [][WsNext]_vars

\* runners and submissions alone, with the threads running: a handler
\* inside create leaves the lock and starts the thread, and a runner that
\* can take a step eventually takes one
FairNext ==
    \/ \E j \in JobIds : RunnerStep(j)
    \/ SubmitStep

FairSpec ==
    /\ Init /\ [][FairNext]_vars
    /\ WF_vars(SubmitDispatch)
    /\ \A j \in JobIds : WF_vars(RunnerStep(j))

\* the steps of a runner that are its own code; the return of the backend
\* is not among them
RunnerOwn(j) ==
    \/ RunnerStart(j)
    \/ RunnerSetattr(j)
    \/ RunnerDecode(j)
    \/ RunnerPipeline(j)
    \/ RunnerEncode(j)
    \/ RunnerDone(j)
    \/ RunnerExcept(j)

\* the steps by which a handler on the event loop finishes what it began
HandlerRest ==
    \/ SubmitDispatch
    \/ SubmitRespond
    \/ StatusProgress
    \/ StatusError
    \/ Return

\* get_job_status alone among the readers
StatusStep ==
    \/ \E id \in Known : StatusGet(id)
    \/ StatusProgress
    \/ StatusError

\* runners, submissions and status polls, every thread scheduled, but with
\* no promise that a backend ever returns: a runner may stay inside
\* service.upscale for ever
StuckNext ==
    \/ \E j \in JobIds : RunnerStep(j)
    \/ SubmitStep
    \/ StatusStep

StuckSpec ==
    /\ Init /\ [][StuckNext]_vars
    /\ WF_vars(HandlerRest)
    /\ \A j \in JobIds : WF_vars(RunnerOwn(j))

\* runners, submissions and direct calls of JobQueue.update for ids that
\* have no job: the registry's operations without any reader
RegistryNext ==
    \/ \E j \in JobIds : RunnerStep(j)
    \/ SubmitStep
    \/ CallStep

RegistrySpec == Init /\ [][RegistryNext]_vars

\* ================================================================ claims

\* C1: once a job's status in the registry is done or error it never changes
\* again, whatever step any runner, poller or submission takes.
C1_TerminalIsFinal ==
    [][\A j \in DOMAIN jobs :
          jobs[j].status \in Terminal =>
              j \in DOMAIN jobs' /\ jobs'[j].status = jobs[j].status]_vars

\* C1 witness: a poller has read a terminal status of a job whose runner has
\* returned, while the other job is still being worked on.
C1_Witness ==
    \E j \in DOMAIN jobs :
        /\ runner[j].pc = "finished"
        /\ jobs[j].status \in Terminal
        /\ loop.h = "status" /\ loop.pc = "respond" /\ loop.id = j
        /\ loop.status = jobs[j].status
        /\ \E k \in DOMAIN jobs : jobs[k].status = "processing"

\* C2: in every state of a job record that get can hand to a reader, result
\* bytes are present iff status = done and error is present iff status =
\* error (so neither is present while queued or processing).
C2_ResultIffDone ==
    \A j \in DOMAIN jobs :
        /\ (jobs[j].result_bytes # None) <=> (jobs[j].status = "done")
        /\ (jobs[j].error # None) <=> (jobs[j].status = "error")

\* C3: get_job_result answers 200 only with the artifact the runner stored
\* (never an empty or missing one) and answers 409 without bytes for a job
\* that is queued, processing or error.
C3_ArtifactOnlyWhenDone ==
    (loop.h = "result" /\ loop.pc = "respond" /\ loop.code # 404) =>
        /\ loop.code = 200 => (loop.status = "done" /\ loop.body = ImageBytes)
        /\ loop.status # "done" => (loop.code = 409 /\ loop.body = None)

\* C5: no reader sees status = done with progress < 1.0 nor status =
\* processing with progress = 0.0, neither in the record get returns nor in
\* a status response.
C5_ProgressWithStatus ==
    /\ \A j \in DOMAIN jobs :
          /\ jobs[j].status = "done" => jobs[j].progress = ProgressDone
          /\ jobs[j].status = "processing" => jobs[j].progress # ProgressQueued
    /\ (loop.h = "status" /\ loop.pc = "respond" /\ loop.code = 200) =>
          /\ loop.status = "done" => loop.progress = ProgressDone
          /\ loop.status = "processing" => loop.progress # ProgressQueued

\* C6: the (status, progress, error) payload of a status response equals the
\* state the registry held for that job at one single instant.
C6_PayloadIsSnapshot ==
    (loop.h = "status" /\ loop.pc = "respond" /\ loop.code = 200) =>
        Payload(loop) \in hist[loop.id]

\* C7: the response of create_upscale_job carries the initial status queued,
\* however far the dispatched runner has got.
C7_CreateReturnsQueued ==
    (loop.h = "job" /\ loop.pc = "respond" /\ loop.code = 200) => loop.status = "queued"

\* C4: a websocket session that ends by its own break has sent exactly one
\* message carrying a terminal status; no session sends more than one.
C4_TerminalSentOnce ==
    \A s \in Sessions :
        /\ ws[s].nterm <= 1
        /\ ws[s].end = "break" => ws[s].nterm = 1

\* C8: under fair scheduling every job the asynchronous endpoint created
\* eventually reaches status done or error.
C8_EventuallyTerminal ==
    \A j \in JobIds :
        (j \in DOMAIN jobs) ~> (j \in DOMAIN jobs /\ jobs[j].status \in Terminal)

\* C8 witness: every job the model can create has been created and has
\* reached done or error, one of each.
C8_Witness ==
    /\ \A j \in JobIds : j \in DOMAIN jobs /\ jobs[j].status \in Terminal
    /\ \E j \in JobIds : jobs[j].status = "done"
    /\ \E j \in JobIds : jobs[j].status = "error"

\* positions of the terminal update calls in a runner's call log
TerminalCalls(j) == {i \in 1..Len(upd[j]) : upd[j][i] \in Terminal}

\* C9: a runner makes at most one terminal update call, every non-terminal
\* call precedes it, and a runner that has returned has made exactly one.
C9_OneTerminalUpdate ==
    \A j \in JobIds :
        /\ Cardinality(TerminalCalls(j)) <= 1
        /\ TerminalCalls(j) \subseteq {Len(upd[j])}
        /\ runner[j].pc = "finished" => Cardinality(TerminalCalls(j)) = 1

\* C9 witness: one runner has returned after processing, done and another
\* after processing, error.
C9_Witness ==
    /\ \E j \in JobIds : runner[j].pc = "finished" /\ upd[j] = <<"processing", "done">>
    /\ \E j \in JobIds : runner[j].pc = "finished" /\ upd[j] = <<"processing", "error">>

\* C10 as stated: a runner that has returned leaves its job in error, with
\* the stringified cause and no result, when decoding or the backend raised,
\* and in done when neither of the two raised; no exception escapes.
C10_DoneUnlessDecodeOrPipelineRaises ==
    \A j \in JobIds :
        /\ runner[j].pc # "crashed"
        /\ runner[j].pc = "finished" =>
              IF runner[j].raised \in {"decode", "pipeline"}
              THEN /\ jobs[j].status = "error"
                   /\ jobs[j].error = Str(runner[j].raised)
                   /\ jobs[j].result_bytes = None
              ELSE jobs[j].status = "done"

\* C10 amended: the same with the encoding of the output counted among the
\* steps that can raise: error with the stringified cause and no result when
\* decoding, the backend or the encoding raised, done with the artifact when
\* none of the three raised; no exception escapes.
C10_DoneUnlessTryBlockRaises ==
    \A j \in JobIds :
        /\ runner[j].pc # "crashed"
        /\ runner[j].pc = "finished" =>
              IF runner[j].raised # None
              THEN /\ jobs[j].status = "error"
                   /\ jobs[j].error = Str(runner[j].raised)
                   /\ jobs[j].result_bytes = None
              ELSE /\ jobs[j].status = "done"
                   /\ jobs[j].error = None
                   /\ jobs[j].result_bytes = ImageBytes

\* C10 witness: one runner has returned after the encoding raised and
\* another after nothing raised.
C10_Witness ==
    /\ \E j \in JobIds :
          runner[j].pc = "finished" /\ runner[j].raised = "encode" /\ jobs[j].status = "error"
    /\ \E j \in JobIds :
          runner[j].pc = "finished" /\ runner[j].raised = None /\ jobs[j].status = "done"

\* C11: a job's progress in the registry, which is what every get hands
\* out, never decreases from one step to the next and lies in [0.0, 1.0].
C11_ProgressNonDecreasing ==
    [][\A j \in DOMAIN jobs' :
          /\ ProgressQueued <= jobs'[j].progress
          /\ jobs'[j].progress <= ProgressDone
          /\ j \in DOMAIN jobs => jobs[j].progress <= jobs'[j].progress]_vars

\* C11 witness: a status handler holds the progress 0.05 it read while the
\* runner has since moved the job's progress to 1.0.
C11_Witness ==
    /\ loop.h = "status" /\ loop.pc = "respond" /\ loop.code = 200
    /\ loop.progress = ProgressProcessing
    /\ jobs[loop.id].progress = ProgressDone

\* how far a status is along the order in which a runner writes statuses
Rank(st) == IF st = "queued" THEN 0 ELSE IF st = "processing" THEN 1 ELSE 2

\* C12: a job's status in the registry only moves forward in write order
\* (queued, processing, then done or error), so a poller's later read is
\* never behind an earlier one.
C12_StatusInWriteOrder ==
    [][\A j \in DOMAIN jobs :
          /\ j \in DOMAIN jobs'
          /\ Rank(jobs[j].status) <= Rank(jobs'[j].status)]_vars

\* C12 witness: a poller that read processing is still building its response
\* when the registry already holds a terminal status for the job.
C12_Witness ==
    /\ loop.h = "status" /\ loop.pc = "error"
    /\ loop.status = "processing"
    /\ jobs[loop.id].status \in Terminal

\* C15: a call of update for an id that has no job returns without raising
\* and leaves the registry, every job record and every runner as they were.
C15_UpdateUnknownIsNoOp ==
    [][(caller.pc = "inside" /\ caller'.pc # "inside") =>
          /\ caller'.pc = "returned"
          /\ jobs' = jobs
          /\ runner' = runner
          /\ lock' = {}]_vars

\* C15 witness: such a call has returned while a job is being processed and
\* another is already done.
C15_Witness ==
    /\ caller.pc = "returned"
    /\ \E j \in DOMAIN jobs : jobs[j].status = "processing"
    /\ \E j \in DOMAIN jobs : jobs[j].status = "done"

\* C13: a submission is answered 400 exactly when it asks for the default
\* backend with a factor outside {2, 4, 8} or for the learned backend while
\* that is unavailable, and the step that rejects it leaves the registry, the
\* lock and every runner as they were: no job is created, no runner started.
C13_RejectionLeavesRegistry ==
    [][(loop.h = "idle" /\ loop'.h = "job") =>
          /\ loop'.code = 400 <=>
                \/ loop'.use_tfhub /\ ~tfhub
                \/ ~loop'.use_tfhub /\ loop'.factor \notin {2, 4, 8}
          /\ loop'.code = 400 => jobs' = jobs /\ runner' = runner /\ lock' = lock]_vars

\* C13 witness: a submission with factor 3 for the default backend has been
\* answered 400 while the registry holds a job whose runner is at work.
C13_Witness ==
    /\ loop.h = "job" /\ loop.pc = "respond" /\ loop.code = 400
    /\ ~loop.use_tfhub /\ loop.factor = 3
    /\ \E j \in DOMAIN jobs : runner[j].pc = "invoked"

\* C14: a synchronous request, to /process or to /download, whose factor is
\* not in {2, 4, 8} is answered with a validation error and the backend is
\* not invoked.
C14_SyncRejectsIllegalFactor ==
    (loop.h \in {"process", "download"} /\ loop.factor \notin {2, 4, 8}) =>
        loop.code = 400 /\ ~loop.invoked

C17_CreateInsertsOneDefaultJob ==
    [][(loop.h = "idle" /\ loop'.h = "job" /\ loop'.pc = "created") =>
          /\ DOMAIN jobs' = DOMAIN jobs \cup {loop'.id}
          /\ Cardinality(DOMAIN jobs') = Cardinality(DOMAIN jobs) + 1
          /\ jobs'[loop'.id] = [status |-> "queued", progress |-> 0, error |-> None,
                                result_bytes |-> None, content_type |-> None]
          /\ \A k \in DOMAIN jobs : jobs'[k] = jobs[k]]_vars

\* C17 witness: a job has just been created with the default fields while
\* the registry holds an earlier job that is done and has its result.
C17_Witness ==
    /\ loop.h = "job" /\ loop.pc = "created"
    /\ jobs[loop.id].status = "queued" /\ jobs[loop.id].result_bytes = None
    /\ \E k \in DOMAIN jobs : k # loop.id /\ jobs[k].status = "done"
                                          /\ jobs[k].result_bytes = ImageBytes

\* C18: no step removes a job from the registry, and the status and artifact
\* endpoints answer 404 exactly for an id that no create call has returned.
C18_NotFoundIffNeverCreated ==
    [][/\ DOMAIN jobs \subseteq DOMAIN jobs'
       /\ (loop.h = "idle" /\ loop'.h \in {"status", "result"}) =>
             (loop'.code = 404 <=> \A j \in JobIds : runner[j].pc # "none" => loop'.id # j)]_vars

\* C18 witness: the artifact endpoint has answered 404 for an id nobody was
\* given while the registry holds a finished job and a running one.
C18_Witness ==
    /\ loop.h = "result" /\ loop.pc = "respond" /\ loop.code = 404
    /\ loop.id \notin DOMAIN jobs
    /\ \E j \in DOMAIN jobs : jobs[j].status \in Terminal
    /\ \E j \in DOMAIN jobs : jobs[j].status = "processing"

\* C19: a session opened for an id that has no job sends one "Job not found"
\* notification and is closed by that same step, unregistered; only sessions
\* whose id has a job ever send a job status message; and a closed session
\* takes no further step, so it sends nothing more.
C19_UnknownIdNotFoundOnce ==
    [][\A s \in Sessions :
          /\ (ws[s].pc = "new" /\ ws'[s].pc # "new" /\ ws'[s].id \notin DOMAIN jobs) =>
                /\ ws'[s].pc = "ended" /\ ws'[s].end = "notfound"
                /\ ws'[s].nf = 1 /\ ws'[s].nterm = 0
                /\ \A id \in DOMAIN active' : s \notin active'[id]
          /\ (ws[s].pc # "sent" /\ ws'[s].pc = "sent") => ws'[s].id \in DOMAIN jobs
          /\ ws[s].pc = "ended" => ws'[s] = ws[s]]_vars

\* C19 witness: one session was told "Job not found" and is closed while
\* another session is between two ticks of a job that is being processed.
C19_Witness ==
    \E s, o \in Sessions :
        /\ ws[s].pc = "ended" /\ ws[s].end = "notfound" /\ ws[s].nf = 1
        /\ ws[o].pc = "tick" /\ jobs[ws[o].id].status = "processing"

\* the sessions that are open: accepted and not yet torn down
Live(s) == ws[s].pc \in {"busy", "sent", "tick"}

\* C20: after every step active_connections holds, for each job id, exactly
\* the open sessions that watch it and no entry for an id nobody watches any
\* more; a step of one session changes no other session, and no session step
\* touches the registry, the lock or a runner.
C20_TeardownIsLocal ==
    [][/\ DOMAIN active' = {ws'[s].id : s \in {o \in Sessions : Live(o)'}}
       /\ \A id \in DOMAIN active' :
             active'[id] = {s \in Sessions : Live(s)' /\ ws'[s].id = id}
       /\ (ws' # ws \/ active' # active) =>
             /\ jobs' = jobs /\ runner' = runner /\ lock' = lock
             /\ \E s \in Sessions : \A o \in Sessions \ {s} : ws'[o] = ws[o]]_vars

\* C20 witness: two sessions watched the same job; one was torn down when its
\* observer left, the other is still registered, alone, and between two ticks.
C20_Witness ==
    \E s, o \in Sessions :
        /\ ws[s].pc = "ended" /\ ws[s].end = "disconnect"
        /\ ws[o].pc = "tick" /\ ws[o].id = ws[s].id
        /\ ws[o].id \in DOMAIN active /\ active[ws[o].id] = {o}

\* C21: a runner dispatched for a submission that asked for the learned
\* backend while it is available is inside that backend with factor 4
\* whenever it is inside a backend, and no such submission is answered 400,
\* whatever factor came with it.
C21_LearnedBackendForcesFour ==
    /\ \A j \in JobIds :
          (runner[j].pc = "invoked" /\ runner[j].use_tfhub /\ tfhub) =>
              runner[j].backend = "tfhub" /\ runner[j].factor = 4
    /\ (loop.h = "job" /\ loop.use_tfhub /\ tfhub) => loop.code # 400

\* C21 witness: one runner is inside the learned backend with factor 4 (the
\* model's callers supply 2 or 3) while another is inside the default one.
C21_Witness ==
    \E j, k \in JobIds :
        /\ runner[j].pc = "invoked" /\ runner[j].use_tfhub
        /\ runner[j].backend = "tfhub" /\ runner[j].factor = 4
        /\ runner[k].pc = "invoked" /\ runner[k].backend = "pil"

\* the positions at which a runner is executing its own code or an update
Working(k) == runner[k].pc \in {"start", "setattr", "decode", "pipeline",
                                 "encode", "call_done", "except"}

\* C22: a runner that is inside the backend holds no registry lock and its
\* job is in status processing; if it stays there for ever the job stays in
\* processing for ever; and meanwhile every other runner gets through its
\* updates (until it has finished or is inside a backend itself) and every
\* handler on the event loop, create and get for any job included, returns.
C22_StuckRunnerBlocksNobody ==
    /\ [](\A j \in JobIds :
             runner[j].pc = "invoked" =>
                 /\ RunnerThread(j) \notin lock
                 /\ jobs[j].status = "processing")
    /\ \A j \in JobIds :
          <>[](runner[j].pc = "invoked") =>
              <>[](runner[j].pc = "invoked" /\ jobs[j].status = "processing")
    /\ \A k \in JobIds : Working(k) ~> (runner[k].pc \in {"finished", "invoked"})
    /\ (loop.h # "idle") ~> (loop.h = "idle")

\* C22 witness: one runner is inside the backend while the other job has been
\* created after that, has run to done, and a status poll of the stuck job
\* has been answered with processing.
C22_Witness ==
    \E j, k \in JobIds :
        /\ j < k
        /\ runner[j].pc = "invoked"
        /\ runner[k].pc = "finished" /\ jobs[k].status = "done"
        /\ loop.h = "status" /\ loop.pc = "respond" /\ loop.id = j
        /\ loop.status = "processing"

\* what update(status=st, ...) makes of record rec when all its setattr
\* rounds are applied at once; exc is what the runner caught, if anything
Whole(rec, st, exc) ==
    IF st = "processing"
    THEN [rec EXCEPT !.status = "processing", !.progress = ProgressProcessing]
    ELSE IF st = "done"
    THEN [rec EXCEPT !.status = "done", !.progress = ProgressDone,
                     !.result_bytes = ImageBytes, !.content_type = ContentType]
    ELSE [rec EXCEPT !.status = "error", !.error = Str(exc)]

RECURSIVE WholeAll(_, _, _)
\* the update calls of the log calls applied to rec in call order, each whole
WholeAll(rec, calls, exc) ==
    IF calls = <<>> THEN rec
    ELSE WholeAll(Whole(rec, Head(calls), exc), Tail(calls), exc)

\* C23: at most one thread is inside a critical section of create or update
\* at any time, and whenever none is, the registry holds exactly the jobs the
\* create calls have returned, each with the fields that result from applying
\* its update calls whole, one after the other, to a freshly created job.
C23_MutationsSerialized ==
    /\ Cardinality(lock) <= 1
    /\ lock = {} =>
          /\ DOMAIN jobs = {j \in JobIds : runner[j].pc # "none"}
          /\ \A j \in DOMAIN jobs :
                jobs[j] = WholeAll([status |-> "queued", progress |-> ProgressQueued,
                                    error |-> None, result_bytes |-> None,
                                    content_type |-> None],
                                   upd[j], runner[j].raised)

\* C23 witness: nobody is in a critical section, both jobs exist, one after
\* two updates (processing, error), the other after two (processing, done),
\* and an update for an id without a job has come and gone.
C23_Witness ==
    /\ lock = {} /\ caller.pc = "returned"
    /\ \E j, k \in DOMAIN jobs :
          /\ upd[j] = <<"processing", "error">> /\ jobs[j].status = "error"
          /\ upd[k] = <<"processing", "done">> /\ jobs[k].status = "done"

\* C24: a runner is started only by the create handler, for the id that
\* handler's create call returned, and never a second time; once the handler
\* is past that step every job in the registry has its runner; and the only
\* step that changes a job's record is a setattr round of that job's own
\* runner, which leaves every other runner where it was.
C24_RunnerUpdatesOwnJob ==
    [][/\ \A j \in JobIds :
             (runner'[j].pc = "start" /\ runner[j].pc # "start") =>
                 /\ runner[j].pc = "none"
                 /\ loop.h = "job" /\ loop.pc = "created" /\ loop.id = j
       /\ lock' = {} => \A j \in DOMAIN jobs' : runner'[j].pc # "none"
       /\ \A k \in DOMAIN jobs :
             jobs'[k] # jobs[k] =>
                 /\ runner[k].pc = "setattr" /\ runner'[k] # runner[k]
                 /\ \A j \in JobIds \ {k} : runner'[j] = runner[j]
                 /\ \A j \in DOMAIN jobs \ {k} : jobs'[j] = jobs[j]]_vars

\* C24 witness: one runner is between two setattr rounds of its done update
\* while the other job, whose runner is inside the backend, still has the
\* record its own first update gave it.
C24_Witness ==
    \E j, k \in DOMAIN jobs :
        /\ j # k
        /\ runner[j].pc = "setattr" /\ runner[j].kw.status = "done"
        /\ jobs[j].status = "done"
        /\ runner[k].pc = "invoked"
        /\ jobs[k].status = "processing" /\ jobs[k].progress = ProgressProcessing

====
